---- MODULE Spec2Model ----
(***************************************************************************)
(* A model of joern_to_neo4j.py: the import driver import_online_neo4j     *)
(* (lines 128-297) and the command-line entry point main (lines 300-457).  *)
(*                                                                         *)
(* Script text is a sequence of tokens.  One token stands for one piece of *)
(* text that the regular expression pattern_load_csv (line 149) treats as  *)
(* a unit:                                                                 *)
(*   "L"   LOAD CSV FROM<space>                     (group 1)              *)
(*   "l"   group 1 spelled otherwise: lower case, WITH HEADERS, more space *)
(*   "Q"   'file:/<name>' as the export wrote it    (quotes and group 2)   *)
(*   "Qd"  'file:/<dir>/<name>'                                            *)
(*   "U"   'file:///<name>' as line 210/215 writes it                      *)
(*   "Qg"  'file:/<name>' where <name> holds a backslash and a digit (\1)  *)
(*   "Ug"  'file:///<name>' for that same name                             *)
(*   "UL"  'file:///<name>' with the text of group 1 in place of the \1    *)
(*   "Qx"  'file:/<name>' where <name> holds a backslash and a letter that *)
(*         is no escape of a replacement template (\d)                     *)
(*   "Ux"  'file:///<name>' for that same name                             *)
(*   "A"   <space>AS<space>                         (start of group 3)     *)
(*   "a"   the same spelled otherwise: lower case, more space              *)
(*   "w"   one word character                       (\w, group 4)          *)
(*   "b"   one character of body text that is neither \w nor white space   *)
(*   ";"   the statement terminator                                        *)
(*   " ", "\n"   white space                                               *)
(*   "    "      the four blanks line 242 puts after a newline             *)
(***************************************************************************)
EXTENDS Integers, Sequences, FiniteSets, TLC

\* The longest list of node scripts and of edge scripts handed to the driver.
MaxNodeFiles == 2
MaxEdgeFiles == 1

\* The longest lists of node and of edge scripts an export leaves for main.
MaxExportedNodeFiles == 1
MaxExportedEdgeFiles == 1

\* Line 22.
BATCH_SIZE == 1000

VARIABLES
    node_cypher_files,  \* the node scripts, in list order (files on disk)
    edge_cypher_files,  \* the edge scripts, in list order (files on disk)
    pc,                 \* the position of the run
    entry,              \* who called import_online_neo4j: "main" or "caller"
    idx,                \* the loop of line 178: index into all_cypher_files
    constraint_applied, \* line 157
    import_errors,      \* line 175
    processed_files,    \* line 176
    batched_cypher,     \* line 237: the query of the script in hand
    exc,                \* the exception in flight, "none" if there is none
    result,             \* <<v>> once import_online_neo4j returned v, <<>> before
    sessions,           \* driver.session() scopes that are open
    constraint_log,     \* outcomes of the constraint attempts, in order
    read_log,           \* the scripts read at line 182, in order
    exec_log,           \* the scripts sent to session.run, with the outcome
    conn_failure,       \* where a connection first failed, and after how many
                        \* scripts sent; site "none" while none has
    args,               \* what the command line and the environment gave
    export_dir,         \* csv_export_dir: "stale", "absent" or "exported"
    driver,             \* the connection: "none", "open" or "closed"
    driver_opens,       \* how often GraphDatabase.driver returned a driver
    import_successful,  \* line 411
    exit_code,          \* the status the process ended with, -1 while it runs
    parse_log,          \* outcomes of the joern-parse invocations, in order
    export_log,         \* outcomes of the joern-export invocations, in order
    copy_seen,          \* data paths the loop of line 388 has visited
    copy_failed,        \* data files whose shutil.copy raised (line 394)
    import_root         \* data files present in NEO4J_IMPORT_DIR

importVars == <<pc, idx, constraint_applied, import_errors, processed_files,
                batched_cypher, exc, result, sessions, constraint_log,
                read_log, exec_log, conn_failure>>
envVars == <<node_cypher_files, edge_cypher_files, entry, args>>
toolVars == <<export_dir, parse_log, export_log>>
copyVars == <<copy_seen, copy_failed, import_root>>
driverVars == <<driver, driver_opens>>
mainVars == <<toolVars, copyVars, driverVars, import_successful, exit_code>>
vars == <<importVars, envVars, mainVars>>

----------------------------------------------------------------------------
(* Text *)

IsSpace(c) == c \in {" ", "\n"}

RECURSIVE LStrip(_)
LStrip(s) == IF s # <<>> /\ IsSpace(Head(s)) THEN LStrip(Tail(s)) ELSE s

RECURSIVE RStrip(_)
RStrip(s) ==
    IF s # <<>> /\ IsSpace(s[Len(s)]) THEN RStrip(SubSeq(s, 1, Len(s) - 1)) ELSE s

\* str.strip()
strip(s) == RStrip(LStrip(s))

\* s[0:-1]
DropLast(s) == SubSeq(s, 1, Len(s) - 1)

\* Line 150: the spellings of group 1 and of the start of group 3 (the
\* pattern ignores case and takes any white space), and the quoted references
\* 'file:/[^']+'.
Prefixes == {"L", "l"}
SuffixStarts == {"A", "a"}
References == {"Q", "Qd", "U", "Qg", "Ug", "UL", "Qx", "Ux"}

\* pattern_load_csv matches at position i of s.
MatchAt(s, i) ==
    /\ i + 3 <= Len(s)
    /\ s[i] \in Prefixes
    /\ s[i + 1] \in References
    /\ s[i + 2] \in SuffixStarts
    /\ s[i + 3] = "w"

\* pattern_load_csv.search(s): where the first match starts, 0 for None.
search(s) ==
    IF \E i \in 1..Len(s) : MatchAt(s, i)
    THEN CHOOSE i \in 1..Len(s) :
             MatchAt(s, i) /\ \A j \in 1..(i - 1) : ~MatchAt(s, j)
    ELSE 0

RECURSIVE WordEnd(_, _)
WordEnd(s, j) == IF j + 1 <= Len(s) /\ s[j + 1] = "w" THEN WordEnd(s, j + 1) ELSE j

\* match.end(0) of the match that starts at i: \w+ is greedy.
match_end(s, i) == WordEnd(s, i + 3)

\* str.replace(chr(10), chr(10) + '    ')
RECURSIVE Indent(_)
Indent(s) ==
    IF s = <<>> THEN <<>>
    ELSE IF Head(s) = "\n" THEN <<"\n", "    ">> \o Indent(Tail(s))
    ELSE <<Head(s)>> \o Indent(Tail(s))

----------------------------------------------------------------------------
(* The files a run may find *)

CypherFile(readable, text, data) ==
    [readable |-> readable, text |-> text, data |-> data]

\* readable: read_text (line 182) returns the text; data: what is_file
\* (lines 203, 389) finds at the data path: "file", "dir" or "none".
SampleFiles ==
    { CypherFile(FALSE, <<>>, "none"),
      CypherFile(TRUE, <<" ", "\n">>, "file"),
      CypherFile(TRUE, <<"b", "b", ";", "\n">>, "file"),
      CypherFile(TRUE, <<"L", "Q", "A", "w", "\n", "b", ";">>, "none"),
      CypherFile(TRUE, <<"L", "Q", "A", "w", "\n", "b", ";">>, "dir"),
      CypherFile(TRUE, <<"L", "Q", "A", "w", "w", "\n">>, "file"),
      CypherFile(TRUE, <<"L", "Q", "A", "w", "\n", "b", "\n", "b", ";">>, "file") }

SeqsUpTo(S, n) == UNION {[1..k -> S] : k \in 0..n}

\* The paths of a list: each file with the list it is from and its place there.
Paths(kind, files) ==
    [i \in 1..Len(files) |-> [kind |-> kind, pos |-> i, file |-> files[i]]]

\* The lists concatenated the other way round.
all_cypher_files_edges_first ==
    Paths("edge", edge_cypher_files) \o Paths("node", node_cypher_files)

\* Line 174.
all_cypher_files ==
    Paths("node", node_cypher_files) \o Paths("edge", edge_cypher_files)

\* cypher_file_path.name
Name(path) == [kind |-> path.kind, pos |-> path.pos]

NoQuery == [load_clause |-> <<>>, variable |-> <<>>, body |-> <<>>, rows |-> 0]

----------------------------------------------------------------------------
(* Lines 182-246: read one script and build its batched query *)

\* Lines 237-246.
BatchedQuery(load_clause_full, variable_name, core_logic) ==
    [load_clause |-> load_clause_full,
     variable |-> variable_name,
     body |-> Indent(DropLast(core_logic)),
     rows |-> BATCH_SIZE]

\* Lines 196, 202: Path(relative_data_filename).name, the last component of
\* what the reference names.
data_file_name(reference) ==
    CASE reference \in {"Q", "Qd", "U"} -> "name"
      [] reference \in {"Qg", "Ug"} -> "name_with_group_reference"
      [] reference \in {"Qx", "Ux"} -> "name_with_bad_escape"
      [] OTHER -> "name_with_prefix_text"

\* Line 210, between the quotes line 215 puts around it.
data_file_abs_uri(name) ==
    CASE name = "name" -> "U"
      [] name = "name_with_group_reference" -> "Ug"
      [] name = "name_with_bad_escape" -> "Ux"
      [] OTHER -> "UL"

\* Lines 214-215: the replacement is a string, which re.sub reads as a
\* template.  A backslash and a letter that is no escape raise re.error.
TemplateError(uri) == uri = "Ux"

\* Lines 214-215: in a template a backslash and a digit stand for the text of
\* that group of the match.
Expanded(uri) == IF uri = "Ug" THEN "UL" ELSE uri

\* Lines 214-218: the first match in the whole text is replaced by the
\* prefix, the new reference and the suffix taken from the match of line 188.
Substituted(cypher_content, load_clause_prefix, uri, load_clause_suffix) ==
    LET m == search(cypher_content) IN
    IF m = 0 THEN cypher_content
    ELSE SubSeq(cypher_content, 1, m - 1)
             \o <<load_clause_prefix, Expanded(uri)>> \o load_clause_suffix
             \o SubSeq(cypher_content, match_end(cypher_content, m) + 1,
                       Len(cypher_content))

\* The check of line 203 left out.
DataFileNotChecked(f) == TRUE

\* Line 203.
DataFileFound(f) == f.data = "file"

\* Line 183.
IsBlank(cypher_content) == strip(cypher_content) = <<>>

\* The outcome of lines 182-246 for file f: a status and, when the status is
\* "ready", the query to execute.
Prepared(f) ==
    IF ~f.readable THEN [status |-> "unreadable", query |-> NoQuery]
    ELSE IF IsBlank(f.text) THEN [status |-> "empty", query |-> NoQuery]
    ELSE
      LET searched == DropLast(f.text)
          m == search(searched)
      IN
      IF m = 0 THEN [status |-> "malformed", query |-> NoQuery]
      ELSE IF ~DataFileFound(f) THEN [status |-> "data_missing", query |-> NoQuery]
      ELSE
        LET load_clause_prefix == searched[m]
            relative_data_filename == searched[m + 1]
            load_clause_suffix == SubSeq(searched, m + 2, match_end(searched, m))
            variable_name == SubSeq(searched, m + 3, match_end(searched, m))
            uri == data_file_abs_uri(data_file_name(relative_data_filename))
        IN
        IF TemplateError(uri) THEN [status |-> "template_error", query |-> NoQuery]
        ELSE
          LET modified_cypher == Substituted(f.text, load_clause_prefix, uri,
                                             load_clause_suffix)
              mm == search(modified_cypher)
          IN
          IF mm = 0 THEN [status |-> "rematch_failed", query |-> NoQuery]
          ELSE
            LET load_clause_end_index == match_end(modified_cypher, mm)
                load_clause_full ==
                    SubSeq(modified_cypher, 1, load_clause_end_index)
                core_logic ==
                    strip(SubSeq(modified_cypher, load_clause_end_index + 1,
                                 Len(modified_cypher)))
            IN
            IF core_logic = <<>> THEN [status |-> "no_body", query |-> NoQuery]
            ELSE [status |-> "ready",
                  query |-> BatchedQuery(load_clause_full, variable_name,
                                         core_logic)]

\* The statuses after which lines 192, 206, 225, 267, 282 set import_errors.
ErrorStatuses ==
    {"unreadable", "malformed", "data_missing", "template_error", "rematch_failed"}

----------------------------------------------------------------------------
(* import_online_neo4j, lines 128-297 *)

\* What a query sent to the database may end in: success, a query error the
\* client reports, or a connection-level failure.
DbOutcomes == {"ok", "ClientError", "AuthError", "ServiceUnavailable"}
ConnectionErrors == {"AuthError", "ServiceUnavailable", "ConfigurationError"}

ImportEntry(nodes, edges, who) ==
    /\ node_cypher_files = nodes
    /\ edge_cypher_files = edges
    /\ entry = who
    /\ idx = 1
    /\ constraint_applied = FALSE
    /\ import_errors = FALSE
    /\ processed_files = 0
    /\ batched_cypher = NoQuery
    /\ exc = "none"
    /\ result = <<>>
    /\ sessions = 0
    /\ constraint_log = <<>>
    /\ read_log = <<>>
    /\ exec_log = <<>>
    /\ conn_failure = [site |-> "none", sent |-> 0]

\* The first connection-level failure is remembered with the number of scripts
\* sent to the database so far.
FirstFailure(outcome, site, sent) ==
    IF outcome \in ConnectionErrors /\ conn_failure.site = "none"
    THEN [site |-> site, sent |-> sent]
    ELSE conn_failure

\* Line 159: the session of the constraint attempt is opened.
ConstraintSession ==
    /\ pc = "constraint"
    /\ sessions' = sessions + 1
    /\ pc' = "constraint_run"
    /\ UNCHANGED <<idx, constraint_applied, import_errors, processed_files,
                   batched_cypher, exc, result, constraint_log, read_log, exec_log>>
    /\ UNCHANGED <<conn_failure, envVars, mainVars>>

\* Lines 160-163: the constraint query runs; line 163 is reached on success.
ConstraintRun ==
    /\ pc = "constraint_run"
    /\ \E outcome \in DbOutcomes :
         /\ constraint_log' = Append(constraint_log, outcome)
         /\ constraint_applied' = (outcome = "ok")
         /\ exc' = IF outcome = "ok" THEN "none" ELSE outcome
         /\ conn_failure' = FirstFailure(outcome, "constraint", Len(exec_log))
    /\ pc' = "constraint_close"
    /\ UNCHANGED <<idx, import_errors, processed_files, batched_cypher, result,
                   sessions, read_log, exec_log>>
    /\ UNCHANGED <<envVars, mainVars>>

\* A failed constraint attempt that flags the run.
ConstraintCloseFlagging ==
    /\ pc = "constraint_close"
    /\ sessions' = sessions - 1
    /\ exc' = "none"
    /\ import_errors' = (exc # "none")
    /\ processed_files' = 0
    /\ idx' = 1
    /\ pc' = "loop"
    /\ UNCHANGED <<constraint_applied, batched_cypher, result, constraint_log,
                   read_log, exec_log>>
    /\ UNCHANGED <<conn_failure, envVars, mainVars>>

\* Lines 159, 164-176: the with block releases the session, the handlers of
\* lines 164 and 167 swallow any exception, and the loop is set up.
ConstraintClose ==
    /\ pc = "constraint_close"
    /\ sessions' = sessions - 1
    /\ exc' = "none"
    /\ import_errors' = FALSE
    /\ processed_files' = 0
    /\ idx' = 1
    /\ pc' = "loop"
    /\ UNCHANGED <<constraint_applied, batched_cypher, result, constraint_log,
                   read_log, exec_log>>
    /\ UNCHANGED <<conn_failure, envVars, mainVars>>

\* Lines 178-246 for the next script: it is read and rewritten; a script that
\* is skipped or fails here ends its iteration.
PrepareScript ==
    /\ pc = "loop"
    /\ idx <= Len(all_cypher_files)
    /\ read_log' = Append(read_log, Name(all_cypher_files[idx]))
    /\ LET p == Prepared(all_cypher_files[idx].file) IN
         IF p.status = "ready"
         THEN /\ batched_cypher' = p.query
              /\ pc' = "session"
              /\ UNCHANGED <<idx, import_errors>>
         ELSE /\ import_errors' = (import_errors \/ p.status \in ErrorStatuses)
              /\ idx' = idx + 1
              /\ UNCHANGED <<pc, batched_cypher>>
    /\ UNCHANGED <<constraint_applied, processed_files, exc, result, sessions,
                   constraint_log, exec_log>>
    /\ UNCHANGED <<conn_failure, envVars, mainVars>>

\* Line 251.
OpenSession ==
    /\ pc = "session"
    /\ sessions' = sessions + 1
    /\ pc' = "run"
    /\ UNCHANGED <<idx, constraint_applied, import_errors, processed_files,
                   batched_cypher, exc, result, constraint_log, read_log, exec_log>>
    /\ UNCHANGED <<conn_failure, envVars, mainVars>>

\* Lines 252-263: the query is sent; on success the script is counted, and
\* any exception is raised again.
RunScript ==
    /\ pc = "run"
    /\ \E outcome \in DbOutcomes :
         /\ processed_files' = IF outcome = "ok" THEN processed_files + 1
                               ELSE processed_files
         /\ exc' = IF outcome = "ok" THEN "none" ELSE outcome
         /\ conn_failure' = FirstFailure(outcome, "script", Len(exec_log) + 1)
         /\ exec_log' = Append(exec_log, [kind |-> all_cypher_files[idx].kind,
                                          pos |-> all_cypher_files[idx].pos,
                                          outcome |-> outcome])
    /\ pc' = "release"
    /\ UNCHANGED <<idx, constraint_applied, import_errors, batched_cypher, result,
                   sessions, constraint_log, read_log>>
    /\ UNCHANGED <<envVars, mainVars>>

\* An exception that leaves the loop instead of ending the iteration.
ReleaseSessionAborting ==
    /\ pc = "release"
    /\ sessions' = sessions - 1
    /\ import_errors' = (import_errors \/ exc # "none")
    /\ exc' = "none"
    /\ idx' = IF exc # "none" THEN Len(all_cypher_files) + 1 ELSE idx + 1
    /\ pc' = "loop"
    /\ UNCHANGED <<constraint_applied, processed_files, batched_cypher, result,
                   constraint_log, read_log, exec_log>>
    /\ UNCHANGED <<conn_failure, envVars, mainVars>>

\* A session that is closed only after a query that succeeded.
ReleaseSessionLeaking ==
    /\ pc = "release"
    /\ sessions' = IF exc # "none" THEN sessions ELSE sessions - 1
    /\ import_errors' = (import_errors \/ exc # "none")
    /\ exc' = "none"
    /\ idx' = idx + 1
    /\ pc' = "loop"
    /\ UNCHANGED <<constraint_applied, processed_files, batched_cypher, result,
                   constraint_log, read_log, exec_log>>
    /\ UNCHANGED <<conn_failure, envVars, mainVars>>

\* Lines 251, 265-282: the with block releases the session; the handlers of
\* lines 268 (ClientError, and AuthError which derives from it) and 280 (any
\* other exception) flag the run, and the loop goes on.
ReleaseSession ==
    /\ pc = "release"
    /\ sessions' = sessions - 1
    /\ import_errors' = (import_errors \/ exc # "none")
    /\ exc' = "none"
    /\ idx' = idx + 1
    /\ pc' = "loop"
    /\ UNCHANGED <<constraint_applied, processed_files, batched_cypher, result,
                   constraint_log, read_log, exec_log>>
    /\ UNCHANGED <<conn_failure, envVars, mainVars>>

\* The branch of lines 289-291 left out.
ReturnValueWithoutIdleCheck(errors, processed, nodes, edges) == ~errors

\* Lines 286-297.
ReturnValue(errors, processed, nodes, edges) ==
    IF errors THEN FALSE
    ELSE IF processed = 0 /\ (nodes # <<>> \/ edges # <<>>) THEN FALSE
    ELSE IF processed = 0 /\ ~(nodes # <<>> \/ edges # <<>>) THEN TRUE
    ELSE TRUE

\* Lines 284-297: the loop is over and the function returns.
Return ==
    /\ pc = "loop"
    /\ idx > Len(all_cypher_files)
    /\ result' = <<ReturnValue(import_errors, processed_files,
                               node_cypher_files, edge_cypher_files)>>
    /\ IF entry = "main"
       THEN import_successful' = result'[1] /\ pc' = "finally"
       ELSE UNCHANGED import_successful /\ pc' = "returned"
    /\ UNCHANGED <<idx, constraint_applied, import_errors, processed_files,
                   batched_cypher, exc, sessions, constraint_log, read_log, exec_log,
                   conn_failure>>
    /\ UNCHANGED <<envVars, toolVars, copyVars, driverVars, exit_code>>

ImportNext ==
    \/ ConstraintSession
    \/ ConstraintRun
    \/ ConstraintClose
    \/ PrepareScript
    \/ OpenSession
    \/ RunScript
    \/ ReleaseSession
    \/ Return

----------------------------------------------------------------------------
(* main, lines 300-457 *)

\* Lines 305-320: the attributes parse_args gives the namespace args.
ArgumentNames ==
    {"input_path", "output_dir", "jvm_mem", "neo4j_uri", "neo4j_user",
     "neo4j_password", "neo4j_database", "neo4j_import_dir"}

\* What the command line and the environment may give: whether a password
\* came with --neo4j-password or NEO4J_PASSWORD, and what input_path names.
ArgsSet ==
    [password_arg : BOOLEAN, password_env : BOOLEAN,
     input_path : {"missing", "file", "dir", "other"}]

\* Lines 325-326: args.neo4j_password after the environment was consulted.
HasPassword(a) == a.password_arg \/ a.password_env

\* sys.exit(code)
Exit(code) == pc' = "exited" /\ exit_code' = code

\* Lines 324-329.
ResolvePassword ==
    /\ pc = "args"
    /\ IF HasPassword(args) THEN pc' = "validate" /\ UNCHANGED exit_code
       ELSE Exit(1)
    /\ UNCHANGED <<idx, constraint_applied, import_errors, processed_files,
                   batched_cypher, exc, result, sessions, constraint_log,
                   read_log, exec_log,
                   conn_failure>>
    /\ UNCHANGED <<envVars, toolVars, copyVars, driverVars, import_successful>>

\* Lines 333-344.  Line 342 reads args.neo4j_url; an attribute the namespace
\* lacks raises AttributeError, which nothing catches: the interpreter prints
\* the traceback and the process ends with status 1.
ValidateArguments ==
    /\ pc = "validate"
    /\ IF args.input_path = "missing" THEN Exit(1) /\ UNCHANGED exc
       ELSE IF args.input_path \notin {"dir", "file"} THEN Exit(1) /\ UNCHANGED exc
       ELSE IF ~HasPassword(args) THEN Exit(1) /\ UNCHANGED exc
       ELSE IF "neo4j_url" \notin ArgumentNames
            THEN Exit(1) /\ exc' = "AttributeError"
       ELSE pc' = "parse" /\ UNCHANGED <<exit_code, exc>>
    /\ UNCHANGED <<idx, constraint_applied, import_errors, processed_files,
                   batched_cypher, result, sessions, constraint_log, read_log,
                   exec_log,
                   conn_failure>>
    /\ UNCHANGED <<envVars, toolVars, copyVars, driverVars, import_successful>>

\* Lines 361-364 with run_joern_parse (62-73) and run_command (26-60): one
\* invocation; any failure of it makes run_command return False.
RunJoernParse ==
    /\ pc = "parse"
    /\ \E success \in BOOLEAN :
         /\ parse_log' = Append(parse_log, success)
         /\ IF success THEN pc' = "rmtree" /\ UNCHANGED exit_code ELSE Exit(1)
    /\ UNCHANGED <<idx, constraint_applied, import_errors, processed_files,
                   batched_cypher, exc, result, sessions, constraint_log,
                   read_log, exec_log,
                   conn_failure>>
    /\ UNCHANGED <<envVars, export_dir, export_log, copyVars, driverVars,
                   import_successful>>

\* Lines 368-374.
RemoveExportDir ==
    /\ pc = "rmtree"
    /\ IF export_dir = "absent"
       THEN pc' = "export" /\ UNCHANGED <<export_dir, exit_code>>
       ELSE \E removed \in BOOLEAN :
              IF removed
              THEN export_dir' = "absent" /\ pc' = "export" /\ UNCHANGED exit_code
              ELSE Exit(1) /\ UNCHANGED export_dir
    /\ UNCHANGED <<idx, constraint_applied, import_errors, processed_files,
                   batched_cypher, exc, result, sessions, constraint_log,
                   read_log, exec_log,
                   conn_failure>>
    /\ UNCHANGED <<envVars, parse_log, export_log, copyVars, driverVars,
                   import_successful>>

\* The result of the export not looked at.
RunJoernExportUnchecked ==
    /\ pc = "export"
    /\ \E success \in BOOLEAN :
         /\ export_log' = Append(export_log, success)
         /\ export_dir' \in {"exported", "absent"}
         /\ pc' = "mkdir"
         /\ UNCHANGED exit_code
    /\ UNCHANGED <<idx, constraint_applied, import_errors, processed_files,
                   batched_cypher, exc, result, sessions, constraint_log,
                   read_log, exec_log, conn_failure>>
    /\ UNCHANGED <<envVars, parse_log, copyVars, driverVars, import_successful>>

\* Lines 376-379 with run_joern_export (75-93) and run_command (26-60).  A
\* successful export leaves its directory, or (the tool is a black box) none.
RunJoernExport ==
    /\ pc = "export"
    /\ \E success \in BOOLEAN :
         /\ export_log' = Append(export_log, success)
         /\ IF success
            THEN /\ export_dir' \in {"exported", "absent"}
                 /\ pc' = "mkdir"
                 /\ UNCHANGED exit_code
            ELSE Exit(1) /\ UNCHANGED export_dir
    /\ UNCHANGED <<idx, constraint_applied, import_errors, processed_files,
                   batched_cypher, exc, result, sessions, constraint_log,
                   read_log, exec_log,
                   conn_failure>>
    /\ UNCHANGED <<envVars, parse_log, copyVars, driverVars, import_successful>>

\* Lines 382-384, 398-400.
MakeImportDir ==
    /\ pc = "mkdir"
    /\ \E made \in BOOLEAN :
         IF made THEN pc' = "copy" /\ UNCHANGED exit_code ELSE Exit(1)
    /\ UNCHANGED <<idx, constraint_applied, import_errors, processed_files,
                   batched_cypher, exc, result, sessions, constraint_log,
                   read_log, exec_log,
                   conn_failure>>
    /\ UNCHANGED <<envVars, toolVars, copyVars, driverVars, import_successful>>

\* Line 388: what glob("*_data.csv") yields in the export directory.
DataPaths ==
    IF export_dir = "exported"
    THEN {i \in 1..Len(all_cypher_files) : all_cypher_files[i].file.data # "none"}
    ELSE {}

\* Line 389.
DataFiles == {i \in DataPaths : all_cypher_files[i].file.data = "file"}

\* Lines 388-395 for one path of the glob, in the order the file system gives:
\* a file is copied, and a copy that raises is logged and passed over.
CopyDataFile ==
    /\ pc = "copy"
    /\ \E i \in DataPaths \ copy_seen :
         /\ copy_seen' = copy_seen \cup {i}
         /\ IF i \in DataFiles
            THEN \E copied \in BOOLEAN :
                   IF copied
                   THEN import_root' = import_root \cup {i} /\ UNCHANGED copy_failed
                   ELSE copy_failed' = copy_failed \cup {i} /\ UNCHANGED import_root
            ELSE UNCHANGED <<copy_failed, import_root>>
    /\ UNCHANGED <<importVars, envVars, toolVars, driverVars, import_successful,
                   exit_code>>

\* The copy loop left before the glob is exhausted.
CopyDoneEarly ==
    /\ pc = "copy"
    /\ pc' = "discover"
    /\ UNCHANGED <<idx, constraint_applied, import_errors, processed_files,
                   batched_cypher, exc, result, sessions, constraint_log,
                   read_log, exec_log, conn_failure>>
    /\ UNCHANGED <<envVars, mainVars>>

\* Lines 396, 404-411: the glob is exhausted.
CopyDone ==
    /\ pc = "copy"
    /\ copy_seen = DataPaths
    /\ pc' = "discover"
    /\ UNCHANGED <<idx, constraint_applied, import_errors, processed_files,
                   batched_cypher, exc, result, sessions, constraint_log,
                   read_log, exec_log,
                   conn_failure>>
    /\ UNCHANGED <<envVars, mainVars>>

\* Lines 414-418 with get_cypher_files (95-125): a missing directory raises
\* FileNotFoundError, caught at line 433; sys.exit(0) at line 418 passes
\* through the finally block with driver still None.
DiscoverFiles ==
    /\ pc = "discover"
    /\ IF export_dir # "exported"
       THEN exc' = "FileNotFoundError" /\ pc' = "finally" /\ UNCHANGED exit_code
       ELSE IF node_cypher_files = <<>> /\ edge_cypher_files = <<>>
            THEN Exit(0) /\ UNCHANGED exc
       ELSE pc' = "connect" /\ UNCHANGED <<exit_code, exc>>
    /\ UNCHANGED <<idx, constraint_applied, import_errors, processed_files,
                   batched_cypher, result, sessions, constraint_log, read_log,
                   exec_log,
                   conn_failure>>
    /\ UNCHANGED <<envVars, toolVars, copyVars, driverVars, import_successful>>

\* Line 422: GraphDatabase.driver returns the driver or raises.
Connect ==
    /\ pc = "connect"
    /\ \E outcome \in {"ok", "ConfigurationError"} :
         IF outcome = "ok"
         THEN /\ driver' = "open"
              /\ driver_opens' = driver_opens + 1
              /\ pc' = "verify"
              /\ UNCHANGED <<exc, conn_failure>>
         ELSE /\ exc' = outcome
              /\ conn_failure' = FirstFailure(outcome, "connect", Len(exec_log))
              /\ pc' = "finally"
              /\ UNCHANGED driverVars
    /\ UNCHANGED <<idx, constraint_applied, import_errors, processed_files,
                   batched_cypher, result, sessions, constraint_log, read_log, exec_log>>
    /\ UNCHANGED <<envVars, toolVars, copyVars, import_successful, exit_code>>

\* Line 424.
VerifySession ==
    /\ pc = "verify"
    /\ sessions' = sessions + 1
    /\ pc' = "verify_run"
    /\ UNCHANGED <<idx, constraint_applied, import_errors, processed_files,
                   batched_cypher, exc, result, constraint_log, read_log, exec_log,
                   conn_failure>>
    /\ UNCHANGED <<envVars, mainVars>>

\* The connectivity check with its exception swallowed.
VerifyRunIgnoringFailure ==
    /\ pc = "verify_run"
    /\ sessions' = sessions - 1
    /\ \E outcome \in DbOutcomes :
         /\ conn_failure' = FirstFailure(outcome, "verify", Len(exec_log))
         /\ pc' = "constraint"
         /\ UNCHANGED exc
    /\ UNCHANGED <<idx, constraint_applied, import_errors, processed_files,
                   batched_cypher, result, constraint_log, read_log, exec_log>>
    /\ UNCHANGED <<envVars, mainVars>>

\* Lines 424-431: RETURN 1 is sent and the with block releases the session;
\* on success import_online_neo4j is called, and an exception goes to the
\* handlers of lines 433-445.
VerifyRun ==
    /\ pc = "verify_run"
    /\ sessions' = sessions - 1
    /\ \E outcome \in DbOutcomes :
         IF outcome = "ok"
         THEN pc' = "constraint" /\ UNCHANGED <<exc, conn_failure>>
         ELSE /\ exc' = outcome
              /\ conn_failure' = FirstFailure(outcome, "verify", Len(exec_log))
              /\ pc' = "finally"
    /\ UNCHANGED <<idx, constraint_applied, import_errors, processed_files,
                   batched_cypher, result, constraint_log, read_log, exec_log>>
    /\ UNCHANGED <<envVars, mainVars>>

\* The driver taken for unset.
DriverNeverSet(d) == FALSE

\* Line 447.
DriverIsSet(d) == d # "none"

\* Lines 433-449: the exception, if any, was logged by its handler; the
\* finally block closes the driver when there is one.
Finally ==
    /\ pc = "finally"
    /\ exc' = "none"
    /\ driver' = IF DriverIsSet(driver) THEN "closed" ELSE driver
    /\ pc' = "status"
    /\ UNCHANGED <<idx, constraint_applied, import_errors, processed_files,
                   batched_cypher, result, sessions, constraint_log, read_log,
                   exec_log,
                   conn_failure>>
    /\ UNCHANGED <<envVars, toolVars, copyVars, driver_opens, import_successful,
                   exit_code>>

\* Lines 452-457.
FinalStatus ==
    /\ pc = "status"
    /\ IF import_successful THEN Exit(0) ELSE Exit(1)
    /\ UNCHANGED <<idx, constraint_applied, import_errors, processed_files,
                   batched_cypher, exc, result, sessions, constraint_log,
                   read_log, exec_log,
                   conn_failure>>
    /\ UNCHANGED <<envVars, toolVars, copyVars, driverVars, import_successful>>

\* Lines 410-411 and the state of a process that has not yet touched the
\* tools, the import directory or the database.
MainEntry ==
    /\ driver = "none"
    /\ driver_opens = 0
    /\ import_successful = FALSE
    /\ exit_code = -1
    /\ parse_log = <<>>
    /\ export_log = <<>>
    /\ copy_seen = {}
    /\ copy_failed = {}
    /\ import_root = {}

----------------------------------------------------------------------------
(* Specifications *)

\* import_online_neo4j called with a connected driver and two lists of files.
Init ==
    /\ \E nodes \in SeqsUpTo(SampleFiles, MaxNodeFiles) :
       \E edges \in SeqsUpTo(SampleFiles, MaxEdgeFiles) :
           ImportEntry(nodes, edges, "caller")
    /\ pc = "constraint"
    /\ args = [password_arg |-> TRUE, password_env |-> FALSE, input_path |-> "dir"]
    /\ export_dir = "exported"
    /\ driver = "open"
    /\ driver_opens = 0
    /\ import_successful = FALSE
    /\ exit_code = -1
    /\ parse_log = <<>>
    /\ export_log = <<>>
    /\ copy_seen = {}
    /\ copy_failed = {}
    /\ import_root = {}

Next == ImportNext

Spec == Init /\ [][Next]_vars

\* The program started from the command line: main from its first line.
MainInit ==
    /\ \E nodes \in SeqsUpTo(SampleFiles, MaxExportedNodeFiles) :
       \E edges \in SeqsUpTo(SampleFiles, MaxExportedEdgeFiles) :
           ImportEntry(nodes, edges, "main")
    /\ pc = "args"
    /\ args \in ArgsSet
    /\ export_dir \in {"stale", "absent"}
    /\ MainEntry

MainNext ==
    \/ ResolvePassword
    \/ ValidateArguments

SpecMain == MainInit /\ [][MainNext]_vars

\* main from line 346 on: the state in which the checks of lines 324-344 are
\* behind it.  (As the program stands, ValidateArguments never hands over to
\* this state: see line 342.  The lines modelled here are 346-457 as written.)
PipelineInit ==
    /\ \E nodes \in SeqsUpTo(SampleFiles, MaxExportedNodeFiles) :
       \E edges \in SeqsUpTo(SampleFiles, MaxExportedEdgeFiles) :
           ImportEntry(nodes, edges, "main")
    /\ pc = "parse"
    /\ args = [password_arg |-> TRUE, password_env |-> FALSE, input_path |-> "dir"]
    /\ export_dir \in {"stale", "absent"}
    /\ MainEntry

PipelineNext ==
    \/ RunJoernParse
    \/ RemoveExportDir
    \/ RunJoernExport
    \/ MakeImportDir
    \/ CopyDataFile
    \/ CopyDone
    \/ DiscoverFiles
    \/ Connect
    \/ VerifySession
    \/ VerifyRun
    \/ ImportNext
    \/ Finally
    \/ FinalStatus

SpecPipeline == PipelineInit /\ [][PipelineNext]_vars

\* The longest text that follows the variable of the load clause of a script.
MaxBodyLen == 3

\* Scripts with one load clause: what stands before the clause, the clause
\* in its spellings and with its kinds of reference, the variable, and what
\* follows the variable.
Leads == {<<>>, <<"b", "\n">>}
Clauses ==
    { <<"L", "Q", "A">>, <<"l", "Qd", "a">>, <<"L", "U", "A">>,
      <<"L", "Qg", "A">>, <<"L", "Qx", "A">> }
Variables == {<<"w">>, <<"w", "w">>}
BodyTokens == {" ", "\n", "b", ";"}

OneClauseTexts ==
    { lead \o clause \o variable \o rest :
        lead \in Leads, clause \in Clauses, variable \in Variables,
        rest \in SeqsUpTo(BodyTokens, MaxBodyLen) }

\* import_online_neo4j called with a connected driver, no node script or one
\* that is executed, and one edge script with one load clause whose data file
\* is in place.
RewriteInit ==
    /\ \E text \in OneClauseTexts :
       \E nodes \in {<<>>, <<CypherFile(TRUE, <<"L", "Q", "A", "w", "\n", "b",
                                                "\n", "b", ";">>, "file")>>} :
           ImportEntry(nodes, <<CypherFile(TRUE, text, "file")>>, "caller")
    /\ pc = "constraint"
    /\ args = [password_arg |-> TRUE, password_env |-> FALSE, input_path |-> "dir"]
    /\ export_dir = "exported"
    /\ driver = "open"
    /\ driver_opens = 0
    /\ import_successful = FALSE
    /\ exit_code = -1
    /\ parse_log = <<>>
    /\ export_log = <<>>
    /\ copy_seen = {}
    /\ copy_failed = {}
    /\ import_root = {}

RewriteNext == ImportNext

SpecRewrite == RewriteInit /\ [][RewriteNext]_vars

----------------------------------------------------------------------------
(* Properties *)

\* The file a log entry names.
FileOf(name) ==
    IF name.kind = "node" THEN node_cypher_files[name.pos]
    ELSE edge_cypher_files[name.pos]

FilesGiven == Len(node_cypher_files) + Len(edge_cypher_files)

\* The entries of exec_log whose query the database completed.
Successes == {k \in 1..Len(exec_log) : exec_log[k].outcome = "ok"}

\* A non-empty script without a load clause, or whose data file is not there.
Rejected(f) ==
    /\ f.readable
    /\ ~IsBlank(f.text)
    /\ search(DropLast(f.text)) = 0 \/ f.data # "file"

\* A script failed: it could not be read, was rejected, or its query failed.
SomeScriptFailed ==
    \/ \E k \in 1..Len(read_log) :
         ~FileOf(read_log[k]).readable \/ Rejected(FileOf(read_log[k]))
    \/ \E k \in 1..Len(exec_log) : exec_log[k].outcome # "ok"

\* a comes before b: node scripts before edge scripts, and list order in each.
Before(a, b) ==
    \/ a.kind = "node" /\ b.kind = "edge"
    \/ a.kind = b.kind /\ a.pos < b.pos

InOrder(log) ==
    \A i \in 1..Len(log) : \A j \in 1..Len(log) : i < j => Before(log[i], log[j])

\* C1: import_online_neo4j returns true exactly when no script flagged the
\* run as having errors and either a script was executed successfully or both
\* lists were empty; scripts that existed but were all skipped give false.
C1_ReturnValue ==
    pc = "returned" =>
        /\ result = <<~import_errors /\ (Successes # {} \/ FilesGiven = 0)>>
        /\ (FilesGiven > 0 /\ Successes = {} => result = <<FALSE>>)

\* Scripts existed, every one was skipped without an error, and the result is
\* false.
C1_Witness ==
    /\ pc = "returned"
    /\ FilesGiven > 0
    /\ ~import_errors
    /\ exec_log = <<>>
    /\ result = <<FALSE>>

\* C2: scripts are read and executed in the order node list, then edge list,
\* each list in its own order and each script at most once; when an edge
\* script is read or executed, every node script has been read.
C2_NodesBeforeEdges ==
    /\ InOrder(read_log)
    /\ InOrder(exec_log)
    /\ \A k \in 1..Len(read_log) :
         /\ read_log[k].kind = "node" => read_log[k].pos = k
         /\ read_log[k].kind = "edge" =>
                read_log[k].pos = k - Len(node_cypher_files)
    /\ \A k \in 1..Len(exec_log) :
         \E r \in 1..Len(read_log) : read_log[r] = Name(exec_log[k])

\* A node script and then an edge script were executed.
C2_Witness ==
    /\ Len(exec_log) = 2
    /\ exec_log[1].kind = "node"
    /\ exec_log[2].kind = "edge"
    /\ pc = "returned"

\* C3: a script that fails does not end the loop: at the return every script
\* was read, every script that could be rewritten was executed, a failure
\* makes the result false, and the processed count is the number of scripts
\* executed successfully.
C3_FailureDoesNotAbort ==
    pc = "returned" =>
        /\ Len(read_log) = FilesGiven
        /\ \A k \in 1..Len(read_log) :
             Prepared(FileOf(read_log[k])).status = "ready" =>
                 \E e \in 1..Len(exec_log) : Name(exec_log[e]) = read_log[k]
        /\ SomeScriptFailed => result = <<FALSE>>
        /\ processed_files = Cardinality(Successes)

\* A malformed script was followed by a well-formed one, which was executed:
\* the count is 1 and the result false.
C3_Witness ==
    /\ pc = "returned"
    /\ Len(read_log) = 2
    /\ Prepared(FileOf(read_log[1])).status = "malformed"
    /\ Len(exec_log) = 1
    /\ Name(exec_log[1]) = read_log[2]
    /\ exec_log[1].outcome = "ok"
    /\ processed_files = 1
    /\ result = <<FALSE>>

\* What holds of every script read so far that was rejected.
RejectedInv ==
    /\ processed_files = Cardinality(Successes)
    /\ \A k \in 1..Len(read_log) :
         Rejected(FileOf(read_log[k])) =>
             /\ import_errors
             /\ \A e \in 1..Len(exec_log) : Name(exec_log[e]) # read_log[k]

\* What the step that handles a rejected script leaves as it was.
RejectedStep ==
    (pc = "loop" /\ idx <= Len(all_cypher_files)
        /\ Rejected(all_cypher_files[idx].file))
    => /\ node_cypher_files' = node_cypher_files
       /\ edge_cypher_files' = edge_cypher_files
       /\ processed_files' = processed_files
       /\ exec_log' = exec_log
       /\ sessions' = sessions

\* C4: a non-empty script without a load clause, or whose data file is not in
\* its directory, is never sent to the database, is not counted, flags the
\* run, and the step that rejects it changes no file.
C4_RejectedNeverExecuted == []RejectedInv /\ [][RejectedStep]_vars

\* A script whose data file is missing and one without a load clause were
\* read, and the run has returned.
C4_Witness ==
    /\ pc = "returned"
    /\ \E k \in 1..Len(read_log) :
         search(DropLast(FileOf(read_log[k]).text)) # 0
             /\ FileOf(read_log[k]).data = "none"
    /\ \E k \in 1..Len(read_log) :
         Prepared(FileOf(read_log[k])).status = "malformed"
    /\ exec_log # <<>>

\* Lines 324-344 let the run go on.
ArgumentsValid == HasPassword(args) /\ args.input_path \in {"file", "dir"}

\* An invocation of joern-parse or of joern-export failed.
ToolFailed ==
    \/ \E k \in 1..Len(parse_log) : ~parse_log[k]
    \/ \E k \in 1..Len(export_log) : ~export_log[k]

\* The import phase met an error.
ImportFailed ==
    \/ import_errors
    \/ result = <<FALSE>>
    \/ conn_failure.site # "none"

\* C5: main ends with status 1 only after an argument-validation failure, a
\* parse or export failure or an import error, and with status 0 only when
\* the arguments were valid.
C5_ExitCode ==
    pc = "exited" =>
        /\ exit_code = 1 => (~ArgumentsValid \/ ToolFailed \/ ImportFailed)
        /\ exit_code = 0 => ArgumentsValid

\* C6: each external command is invoked at most once, export only after a
\* successful parse, and once either has failed the process has ended with
\* status 1 without copying a file, opening a connection or touching a script.
C6_ToolFailureIsFatal ==
    /\ Len(parse_log) <= 1
    /\ Len(export_log) <= 1
    /\ export_log # <<>> => parse_log = <<TRUE>>
    /\ ToolFailed =>
           /\ pc = "exited"
           /\ exit_code = 1
           /\ copy_seen = {}
           /\ import_root = {}
           /\ driver = "none"
           /\ driver_opens = 0
           /\ sessions = 0
           /\ constraint_log = <<>>
           /\ read_log = <<>>
           /\ exec_log = <<>>

\* The parse succeeded, the export failed, and the process has ended.
C6_Witness ==
    /\ parse_log = <<TRUE>>
    /\ export_log = <<FALSE>>
    /\ pc = "exited"

\* C7 as stated: no script is executed while a discovered data file is
\* missing from the import root.
C7_AllDataFilesPresent ==
    exec_log # <<>> => DataFiles \subseteq import_root

\* C7 as amended: before the connection is opened and any script is read or
\* executed, the copy loop has visited every discovered data path; every data
\* file whose copy did not raise is in the import root, and only those.
C7_CopyAttemptedBeforeExecution ==
    /\ import_root \cap copy_failed = {}
    /\ import_root \cup copy_failed \subseteq DataFiles
    /\ (driver # "none" \/ constraint_log # <<>> \/ read_log # <<>>
            \/ exec_log # <<>>)
       => /\ copy_seen = DataPaths
          /\ DataFiles = import_root \cup copy_failed

\* A script was executed although the copy of a data file had failed, and
\* another data file was copied.
C7_Witness ==
    /\ exec_log # <<>>
    /\ copy_failed # {}
    /\ import_root # {}

\* C8 as stated: after the first connection-level failure no further script
\* is executed and the run ends with failure.
C8_ConnectionFailureAborts ==
    conn_failure.site # "none" =>
        /\ Len(exec_log) = conn_failure.sent
        /\ pc = "exited" => exit_code = 1

\* C8 as amended: a connection-level failure when the driver is created or at
\* the connectivity check ends the import phase: no constraint attempt, no
\* script read or executed, status 1.  One at the constraint attempt or while
\* a script executes does not end the loop: every script is still read; the
\* one while a script executes makes the run end with status 1.
C8_ConnectionFailureHandling ==
    /\ conn_failure.site \in {"connect", "verify"} =>
           /\ pc \in {"finally", "status", "exited"}
           /\ constraint_log = <<>>
           /\ read_log = <<>>
           /\ exec_log = <<>>
           /\ pc = "exited" => exit_code = 1
    /\ conn_failure.site \in {"constraint", "script"} =>
           (pc = "exited" => Len(read_log) = FilesGiven)
    /\ conn_failure.site = "script" => (pc = "exited" => exit_code = 1)

\* A connection failed while a script executed, a later script was executed
\* all the same, and the process has ended.
C8_Witness ==
    /\ conn_failure.site = "script"
    /\ Len(exec_log) > conn_failure.sent
    /\ pc = "exited"

\* C9: the driver is created at most once, and when the process has ended a
\* driver that was created has been closed.
C9_DriverClosed ==
    /\ driver_opens <= 1
    /\ driver = "none" <=> driver_opens = 0
    /\ pc = "exited" => driver # "open"

\* The connectivity check failed and the process ended with the driver closed.
C9_Witness ==
    /\ pc = "exited"
    /\ conn_failure.site = "verify"
    /\ driver = "closed"

\* C10: the constraint is attempted exactly once, before any script is read;
\* its failure flags nothing and keeps no script from being processed, so the
\* result depends on the scripts alone.
C10_ConstraintFailureTolerated ==
    /\ Len(constraint_log) <= 1
    /\ read_log # <<>> => Len(constraint_log) = 1
    /\ import_errors => SomeScriptFailed
    /\ pc = "returned" =>
           /\ Len(constraint_log) = 1
           /\ Len(read_log) = FilesGiven
           /\ result = <<~SomeScriptFailed /\ (Successes # {} \/ FilesGiven = 0)>>

\* The constraint attempt failed and the run returned true.
C10_Witness ==
    /\ pc = "returned"
    /\ constraint_log # <<>>
    /\ constraint_log[1] # "ok"
    /\ ~constraint_applied
    /\ exec_log # <<>>
    /\ result = <<TRUE>>

----------------------------------------------------------------------------
(* The rewrite of a script, lines 188-246 *)

\* The script at place i of the loop of line 178.
ScriptAt(i) == all_cypher_files[i].file

\* The query of line 237 for the script at place i has been built and the
\* script has not been left yet.
InHand(i) == i = idx /\ pc \in {"session", "run", "release"}

\* The script at place i was sent to the database.
Sent(i) ==
    \E k \in 1..Len(exec_log) :
        /\ exec_log[k].kind = all_cypher_files[i].kind
        /\ exec_log[k].pos = all_cypher_files[i].pos

\* Where the load clause of a text with one load clause starts.
ClauseStart(text) == CHOOSE i \in 1..Len(text) : text[i] \in Prefixes

\* The text holds exactly one load clause.
OneClause(text) ==
    /\ Cardinality({i \in 1..Len(text) : text[i] \in Prefixes}) = 1
    /\ MatchAt(text, ClauseStart(text))

\* The variable the clause binds: all the word characters that follow AS.
BoundVariable(text) ==
    SubSeq(text, ClauseStart(text) + 3, WordEnd(text, ClauseStart(text) + 3))

\* The body: the text after the load clause, trimmed.
OriginalBody(text) ==
    strip(SubSeq(text, WordEnd(text, ClauseStart(text) + 3) + 1, Len(text)))

\* A readable script with one load clause, its data file beside it, and a body.
WellFormed(f) ==
    /\ f.readable
    /\ OneClause(f.text)
    /\ f.data = "file"
    /\ OriginalBody(f.text) # <<>>

\* The load clause of the text with file:///<basename> as its reference and
\* everything else as it was, preceded by what preceded it.
RequiredLoadClause(text) ==
    LET m == ClauseStart(text) IN
    SubSeq(text, 1, m - 1)
        \o <<text[m], data_file_abs_uri(data_file_name(text[m + 1])), text[m + 2]>>
        \o BoundVariable(text)

\* C11: every well-formed script with one load clause and its data file in
\* place is rewritten and sent; its rewritten load clause has the reference
\* file:///<basename> and the prefix, the suffix and the variable of the
\* original, the block binds that variable again, and the batch size is 1000.
\* The query is a function of the script alone, so rewriting a script again
\* gives the same query.
C11_RewriteContract ==
    \A i \in 1..Len(all_cypher_files) :
        WellFormed(ScriptAt(i)) =>
            /\ i < idx => Sent(i)
            /\ InHand(i) =>
                   /\ batched_cypher.load_clause = RequiredLoadClause(ScriptAt(i).text)
                   /\ batched_cypher.variable = BoundVariable(ScriptAt(i).text)
                   /\ batched_cypher.rows = 1000

\* The body without its final terminator.
WithoutTerminator(body) ==
    IF body # <<>> /\ body[Len(body)] = ";" THEN DropLast(body) ELSE body

\* C12: the body inside the block is the original body without its final
\* terminator, with the four blanks after each newline and no other change.
C12_BodyPreserved ==
    \A i \in 1..Len(all_cypher_files) :
        (InHand(i) /\ OneClause(ScriptAt(i).text)) =>
            batched_cypher.body =
                Indent(WithoutTerminator(OriginalBody(ScriptAt(i).text)))

----------------------------------------------------------------------------
(* Sessions, lines 159 and 251 *)

\* The script in hand is the one the last entry of exec_log names.
LastSentIsInHand ==
    /\ exec_log # <<>>
    /\ exec_log[Len(exec_log)].kind = all_cypher_files[idx].kind
    /\ exec_log[Len(exec_log)].pos = all_cypher_files[idx].pos

\* C13: at most one session is open at any time; a session is open only
\* while the constraint query or the query of one script runs or has just
\* ended; the session of a script carries that script's query and no other,
\* and it is released, whether the query succeeded or raised, before the
\* next script is read or the function returns.
C13_SessionsSequential ==
    /\ sessions \in {0, 1}
    /\ sessions = 1 <=>
           pc \in {"constraint_run", "constraint_close", "run", "release"}
    /\ pc = "run" => ~Sent(idx)
    /\ pc = "release" => LastSentIsInHand
    /\ pc \in {"loop", "session", "returned"} => sessions = 0 /\ exc = "none"

\* After one script failed with a client error and another with another
\* exception, the session of a third script is open.
C13_Witness ==
    /\ pc = "run"
    /\ sessions = 1
    /\ \E k \in 1..Len(exec_log) : exec_log[k].outcome = "ClientError"
    /\ \E k \in 1..Len(exec_log) : exec_log[k].outcome = "ServiceUnavailable"

====
